---- MODULE Spec2Model ----
(***************************************************************************)
(* Model of the mock interview backend (src/app.py): the process-wide      *)
(* session store, the five request handlers and the report builder.        *)
(*                                                                         *)
(* Spec      every request is handled to completion before the next one   *)
(*           begins (one action per handler).                              *)
(* SpecConc  submit requests run on several threads and their handler      *)
(*           steps interleave (the development server is threaded).        *)
(***************************************************************************)
EXTENDS Integers, Sequences, FiniteSets, TLC

VARIABLES
    interview_sessions,   \* app.py:18  session_id -> session record
    current_session_id,   \* app.py:19  id of the session started last, or NoSession
    now,                  \* the wall clock, datetime.now(), in ticks
    req,                  \* the request handled last (Spec)
    resp,                 \* the response sent last
    th                    \* per worker thread: position and locals of a submit (SpecConc)

vars == <<interview_sessions, current_session_id, now, req, resp, th>>

----------------------------------------------------------------------------
(* Bounds of the model *)

\* the clock runs from 0 to MaxTime ticks
MaxTime == 1
\* ticks in one second: strftime('%Y%m%d_%H%M%S') drops what is below a second
TicksPerSecond == 2
\* seconds in one day: start_time[:10] keeps the calendar date only
SecondsPerDay == 2
\* the store holds at most MaxSessions sessions
MaxSessions == 2
\* interleaved submits: a session takes no further submit once it holds
\* MaxAnswers answers
MaxAnswers == 4
\* interleaved submits: the store holds at most MaxRacedSessions sessions
MaxRacedSessions == 1
\* the report builder is tried on every metric triple of ProbeLo..ProbeHi
ProbeLo == 65
ProbeHi == 95

(* Program constants *)

MetricLo == 70
MetricHi == 95
SuffixLo == 1000
SuffixHi == 9999

\* app.py:22-26, the three prompts, abbreviated
INTERVIEW_QUESTIONS ==
    <<"experience with technologies", "challenging project", "team environment">>

NoSession == "None"
Threads == {1, 2}

----------------------------------------------------------------------------
(* Values a request carries *)

\* a JSON value in the place of session_id: a string, null / absent, or an array
Str(s) == [kind |-> "str", s |-> s]
None == [kind |-> "null", s |-> ""]
List == [kind |-> "list", s |-> ""]

JobRoles == {"Backend Engineer"}
AnswerTexts == {"I have 5 years of experience"}
ResumeFiles == {"cv.pdf"}
NoFile == ""

\* dict.get(key, default) on a parsed JSON object
Get(data, key, default) == IF key \in data.keys THEN data[key] ELSE default

\* request.get_json() yields a dict only for a body that is a JSON object; for
\* an absent or non-JSON body (a multipart form among them) it yields None or
\* raises, and for a JSON array data.get raises: the handler's except clause
\* catches each of these.
IsObject(r) == r.kind = "object"

\* mutant: the upper end taken one too far
randint_open(a, b) == {x \in a..(b + 1) : x = a \/ x = b + 1}

\* random.randint(a, b): an integer of a..b, both ends inclusive; the draws are
\* sampled at the two ends of the range
randint(a, b) == {x \in a..b : x = a \/ x = b}

\* the metrics dict of app.py:50-54 and app.py:99-103: three independent
\* draws, of which the model keeps the triple with all three at the low end
\* and the triples that rise and fall again
SampleMetrics ==
    LET S == randint(MetricLo, MetricHi)
    IN  {m \in [attention : S, positivity : S, confidence : S] :
            \/ /\ m.attention = m.positivity /\ m.positivity = m.confidence
               /\ \A x \in S : m.attention <= x
            \/ m.attention < m.positivity /\ m.positivity > m.confidence}

\* datetime.now().strftime('%Y%m%d_%H%M%S'): the time cut to whole seconds
strftime(t) == t \div TicksPerSecond

\* f"session_{...}_{random.randint(1000, 9999)}"
SessionId(t, n) == "session_" \o ToString(strftime(t)) \o "_" \o ToString(n)

\* d[k] = v on a dict
Put(d, k, v) == [x \in DOMAIN d \cup {k} |-> IF x = k THEN v ELSE d[x]]

\* seq[i] with Python's zero-based index: IndexError outside -len..len-1
IndexOk(seq, i) == -Len(seq) <= i /\ i < Len(seq)
Index(seq, i) == IF i >= 0 THEN seq[i + 1] ELSE seq[Len(seq) + i + 1]

Error500(op, e) == [op |-> op, status |-> 500, success |-> FALSE, error |-> e]
\* mutant: the unknown session reported as an internal error
Invalid400_as500(op) ==
    [op |-> op, status |-> 500, success |-> FALSE, error |-> "Invalid session ID"]

Invalid400(op) ==
    [op |-> op, status |-> 400, success |-> FALSE, error |-> "Invalid session ID"]

NoResponse == [op |-> "none", status |-> 0, success |-> FALSE]

\* a worker thread between requests; its locals while it handles a submit
IdleThread ==
    [pc |-> "idle", sid |-> "", answer |-> "",
     entry |-> [question |-> "", answer |-> "", timestamp |-> 0],
     cursor |-> 0]

----------------------------------------------------------------------------
(* start_interview, app.py:28-69 *)

StartRequests ==
    {[kind |-> "object", data |-> [keys |-> {"job_role"}, job_role |-> r], file |-> NoFile] :
        r \in JobRoles}
    \cup {[kind |-> "object", data |-> [keys |-> {}, job_role |-> ""], file |-> NoFile]}
    \cup {[kind |-> "absent", data |-> [keys |-> {}, job_role |-> ""], file |-> f] :
        f \in ResumeFiles \cup {NoFile}}

\* mutant: the cursor starts at the 1-based question number
NewSession_from_one(job_role, resume_file, t, m) ==
    [job_role |-> job_role,
     resume_filename |-> IF resume_file # NoFile THEN resume_file ELSE "No file uploaded",
     start_time |-> t,
     questions |-> INTERVIEW_QUESTIONS,
     answers |-> <<>>,
     current_question |-> 1,
     metrics |-> m]

\* the session record of app.py:43-55
NewSession(job_role, resume_file, t, m) ==
    [job_role |-> job_role,
     resume_filename |-> IF resume_file # NoFile THEN resume_file ELSE "No file uploaded",
     start_time |-> t,
     questions |-> INTERVIEW_QUESTIONS,
     answers |-> <<>>,
     current_question |-> 0,
     metrics |-> m]

start_interview(r, n) ==
    IF ~IsObject(r)
    THEN /\ resp' = Error500("start_interview", "no JSON object")
         /\ UNCHANGED <<interview_sessions, current_session_id>>
    ELSE \E m \in SampleMetrics :
         LET job_role == Get(r.data, "job_role", "Unknown Role")
             session_id == SessionId(now, n)
         IN  /\ current_session_id' = session_id
             /\ interview_sessions' =
                    Put(interview_sessions, session_id,
                        NewSession(job_role, r.file, now, m))
             /\ resp' = [op |-> "start_interview", status |-> 200, success |-> TRUE,
                         session_id |-> session_id,
                         first_question |-> Index(INTERVIEW_QUESTIONS, 0),
                         total_questions |-> Len(INTERVIEW_QUESTIONS)]

\* the store is capped at MaxSessions keys; an identifier already in it is
\* assigned again (the dict entry is replaced)
HasRoom(n) ==
    \/ Cardinality(DOMAIN interview_sessions) < MaxSessions
    \/ SessionId(now, n) \in DOMAIN interview_sessions

StartInterview ==
    \E r \in StartRequests, n \in randint(SuffixLo, SuffixHi) :
        /\ IsObject(r) => HasRoom(n)
        /\ req' = [op |-> "start_interview", body |-> r]
        /\ start_interview(r, n)
        /\ UNCHANGED <<now, th>>

----------------------------------------------------------------------------
(* submit_answer, app.py:71-131 *)

SessionIdValues ==
    {Str(s) : s \in DOMAIN interview_sessions \cup {"", "session_unknown"}}
    \cup {None, List}

SubmitRequests ==
    {[kind |-> "object",
      data |-> [keys |-> {"session_id", "answer"}, session_id |-> v, answer |-> a]] :
        v \in SessionIdValues, a \in AnswerTexts}
    \cup {[kind |-> "object",
           data |-> [keys |-> {"answer"}, session_id |-> None, answer |-> a]] :
        a \in AnswerTexts}
    \cup {[kind |-> "absent", data |-> [keys |-> {}, session_id |-> None, answer |-> ""]]}

\* `session_id not in interview_sessions` on a hashable value (app.py:80)
NotInSessions(v) == ~(v.kind = "str" /\ v.s \in DOMAIN interview_sessions)

\* app.py:89-93: the entry appended to session['answers']
AnswerEntry(session, answer_text, t) ==
    [question |-> Index(session.questions, session.current_question),
     answer |-> answer_text,
     timestamp |-> t]

\* mutant: the entry is built and never stored
StoreAnswer_drop(session, entry) == session

\* mutant: the entry is put in front of the earlier ones
StoreAnswer_front(session, entry) ==
    [session EXCEPT !.answers = <<entry>> \o @]

\* app.py:89: list.append
StoreAnswer(session, entry) ==
    [session EXCEPT !.answers = Append(@, entry)]

\* mutant: the cursor skips a question
MoveToNext_twice(session) ==
    [session EXCEPT !.current_question = @ + 2]

\* mutant: the stored cursor moved by two
WriteCursor_twice(session, cursor) ==
    [session EXCEPT !.current_question = cursor + 2]

\* app.py:96, second half: the sum is stored back
WriteCursor(session, cursor) ==
    [session EXCEPT !.current_question = cursor + 1]

\* app.py:96: session['current_question'] += 1, read and store back to back
MoveToNext(session) ==
    [session EXCEPT !.current_question = @ + 1]

\* app.py:99-103
UpdateMetrics(session, m) ==
    [session EXCEPT !.metrics = m]

\* mutant: every key of the store holds the one record that is changed
UpdateSession_all(sessions, session_id, after) ==
    [x \in DOMAIN sessions |-> after]

\* mutant: the store rebuilt with the changed session alone
UpdateSession_only(sessions, session_id, after) ==
    [x \in {session_id} |-> after]

\* app.py:86: `session` is the dict stored under the key, changed in place
UpdateSession(sessions, session_id, after) ==
    [sessions EXCEPT ![session_id] = after]

\* mutant: completion reported one answer early
SubmitResponse_early(session) ==
    IF session.current_question >= Len(session.questions) - 1
    THEN [op |-> "submit_answer", status |-> 200, success |-> TRUE,
          interview_complete |-> TRUE,
          metrics |-> session.metrics,
          total_questions |-> Len(session.questions),
          total_answers |-> Len(session.answers)]
    ELSE [op |-> "submit_answer", status |-> 200, success |-> TRUE,
          interview_complete |-> FALSE,
          next_question |-> Index(session.questions, session.current_question),
          question_number |-> session.current_question + 1,
          total_questions |-> Len(session.questions),
          metrics |-> session.metrics]

\* mutant: the cursor itself returned as the question number
SubmitResponse_zero_based(session) ==
    IF session.current_question >= Len(session.questions)
    THEN [op |-> "submit_answer", status |-> 200, success |-> TRUE,
          interview_complete |-> TRUE,
          metrics |-> session.metrics,
          total_questions |-> Len(session.questions),
          total_answers |-> Len(session.answers)]
    ELSE [op |-> "submit_answer", status |-> 200, success |-> TRUE,
          interview_complete |-> FALSE,
          next_question |-> Index(session.questions, session.current_question),
          question_number |-> session.current_question,
          total_questions |-> Len(session.questions),
          metrics |-> session.metrics]

\* app.py:105-125: the response, built from the session as it is now
SubmitResponse(session) ==
    IF session.current_question >= Len(session.questions)
    THEN [op |-> "submit_answer", status |-> 200, success |-> TRUE,
          interview_complete |-> TRUE,
          metrics |-> session.metrics,
          total_questions |-> Len(session.questions),
          total_answers |-> Len(session.answers)]
    ELSE [op |-> "submit_answer", status |-> 200, success |-> TRUE,
          interview_complete |-> FALSE,
          next_question |-> Index(session.questions, session.current_question),
          question_number |-> session.current_question + 1,
          total_questions |-> Len(session.questions),
          metrics |-> session.metrics]

\* mutant: the metrics replaced before the answer is stored, so also when
\* storing it fails
submit_answer_metrics_first(r) ==
    IF ~IsObject(r)
    THEN /\ resp' = Error500("submit_answer", "no JSON object")
         /\ UNCHANGED interview_sessions
    ELSE LET session_id == Get(r.data, "session_id", None)
             answer_text == Get(r.data, "answer", "")
         IN  IF session_id.kind = "list"
             THEN /\ resp' = Error500("submit_answer", "unhashable type")
                  /\ UNCHANGED interview_sessions
             ELSE IF NotInSessions(session_id)
             THEN /\ resp' = Invalid400("submit_answer")
                  /\ UNCHANGED interview_sessions
             ELSE \E m \in SampleMetrics :
                  LET session == UpdateMetrics(interview_sessions[session_id.s], m)
                  IN  IF ~IndexOk(session.questions, session.current_question)
                      THEN /\ resp' = Error500("submit_answer", "list index out of range")
                           /\ interview_sessions' =
                                  UpdateSession(interview_sessions, session_id.s, session)
                      ELSE LET after ==
                                   MoveToNext(
                                       StoreAnswer(session,
                                           AnswerEntry(session, answer_text, now)))
                           IN  /\ interview_sessions' =
                                      UpdateSession(interview_sessions, session_id.s, after)
                               /\ resp' = SubmitResponse(after)

submit_answer(r) ==
    IF ~IsObject(r)
    THEN /\ resp' = Error500("submit_answer", "no JSON object")
         /\ UNCHANGED interview_sessions
    ELSE LET session_id == Get(r.data, "session_id", None)
             answer_text == Get(r.data, "answer", "")
         IN  IF session_id.kind = "list"
             THEN /\ resp' = Error500("submit_answer", "unhashable type")
                  /\ UNCHANGED interview_sessions
             ELSE IF NotInSessions(session_id)
             THEN /\ resp' = Invalid400("submit_answer")
                  /\ UNCHANGED interview_sessions
             ELSE LET session == interview_sessions[session_id.s]
                  IN  IF ~IndexOk(session.questions, session.current_question)
                      THEN /\ resp' = Error500("submit_answer", "list index out of range")
                           /\ UNCHANGED interview_sessions
                      ELSE \E m \in SampleMetrics :
                           LET after ==
                                   UpdateMetrics(
                                       MoveToNext(
                                           StoreAnswer(session,
                                               AnswerEntry(session, answer_text, now))),
                                       m)
                           IN  /\ interview_sessions' =
                                      UpdateSession(interview_sessions, session_id.s, after)
                               /\ resp' = SubmitResponse(after)

SubmitAnswer ==
    \E r \in SubmitRequests :
        /\ req' = [op |-> "submit_answer", body |-> r]
        /\ submit_answer(r)
        /\ UNCHANGED <<current_session_id, now, th>>

----------------------------------------------------------------------------
(* generate_pdf_report, app.py:199-271: the story handed to the document *)

\* f"{value}%"
Percent(value) == ToString(value) \o "%"

\* session['start_time'][:10]: the calendar date of the ISO timestamp
DateOf(t) == strftime(t) \div SecondsPerDay

\* app.py:225-230
MetricsTable(session) ==
    <<<<"Metric", "Score">>,
      <<"Attention", Percent(session.metrics.attention)>>,
      <<"Positivity", Percent(session.metrics.positivity)>>,
      <<"Confidence", Percent(session.metrics.confidence)>>>>

\* mutant: enumerate left to count from 0
QASection_from_zero(session) ==
    [i \in 1..Len(session.answers) |->
        [number |-> i - 1,
         question |-> session.answers[i].question,
         answer |-> session.answers[i].answer]]

\* app.py:249-252: enumerate(session['answers'], 1)
QASection(session) ==
    [i \in 1..Len(session.answers) |->
        [number |-> i,
         question |-> session.answers[i].question,
         answer |-> session.answers[i].answer]]

\* mutant: the mean rounded to the nearest whole number before it is compared
avg_score_round(m) ==
    LET total == m.attention + m.positivity + m.confidence
    IN  [whole |-> (2 * total + 3) \div 6, thirds |-> 0]

\* app.py:256: avg_score = (a + p + c) / 3, a float division of an integer
\* sum: the quotient is whole + thirds/3; the nearest double to it keeps the
\* whole part and a fraction strictly between 0 and 1 when thirds is 1 or 2
avg_score(m) ==
    LET total == m.attention + m.positivity + m.confidence
    IN  [whole |-> total \div 3, thirds |-> total % 3]

\* mutant: the mark itself falls into the bucket below
AtLeast_strict(avg, mark) == avg.whole > mark

\* app.py:258-262: avg_score >= mark, the mark a whole number
AtLeast(avg, mark) == avg.whole >= mark

\* app.py:258-265: the if / elif chain over 90, 80 and 70
Assessment(m) ==
    IF AtLeast(avg_score(m), 90) THEN "Excellent performance!"
    ELSE IF AtLeast(avg_score(m), 80) THEN "Good performance!"
    ELSE IF AtLeast(avg_score(m), 70) THEN "Fair performance."
    ELSE "Needs improvement."

generate_pdf_report(session) ==
    [title |-> "AI Interview Report",
     job_role |-> session.job_role,
     resume |-> session.resume_filename,
     interview_date |-> DateOf(session.start_time),
     metrics_table |-> MetricsTable(session),
     qa |-> QASection(session),
     assessment |-> Assessment(session.metrics)]

----------------------------------------------------------------------------
(* get_report, get_metrics and health, app.py:133-197 *)

\* request.args.get('session_id'): a string of the query, or None
QueryIdValues ==
    {Str(s) : s \in DOMAIN interview_sessions \cup {"", "session_unknown"}} \cup {None}

\* `not session_id or session_id not in interview_sessions` (app.py:139, 170)
InvalidQueryId(v) == v.kind # "str" \/ v.s = "" \/ v.s \notin DOMAIN interview_sessions

get_report(v) ==
    IF InvalidQueryId(v)
    THEN resp' = Invalid400("get_report")
    ELSE resp' = [op |-> "get_report", status |-> 200,
                  download_name |-> "interview_report_" \o v.s \o ".pdf",
                  mimetype |-> "application/pdf",
                  story |-> generate_pdf_report(interview_sessions[v.s])]

\* mutant: the 1-based question number returned in place of the cursor
get_metrics_number(v) ==
    IF InvalidQueryId(v)
    THEN resp' = Invalid400("get_metrics")
    ELSE LET session == interview_sessions[v.s]
         IN  resp' = [op |-> "get_metrics", status |-> 200, success |-> TRUE,
                      metrics |-> session.metrics,
                      current_question |-> session.current_question + 1,
                      total_questions |-> Len(session.questions)]

get_metrics(v) ==
    IF InvalidQueryId(v)
    THEN resp' = Invalid400("get_metrics")
    ELSE LET session == interview_sessions[v.s]
         IN  resp' = [op |-> "get_metrics", status |-> 200, success |-> TRUE,
                      metrics |-> session.metrics,
                      current_question |-> session.current_question,
                      total_questions |-> Len(session.questions)]

health_check ==
    resp' = [op |-> "health", status |-> 200, state |-> "healthy", timestamp |-> now]

GetReport ==
    \E v \in QueryIdValues :
        /\ req' = [op |-> "get_report", session_id |-> v]
        /\ get_report(v)
        /\ UNCHANGED <<interview_sessions, current_session_id, now, th>>

GetMetrics ==
    \E v \in QueryIdValues :
        /\ req' = [op |-> "get_metrics", session_id |-> v]
        /\ get_metrics(v)
        /\ UNCHANGED <<interview_sessions, current_session_id, now, th>>

HealthCheck ==
    /\ req' = [op |-> "health"]
    /\ health_check
    /\ UNCHANGED <<interview_sessions, current_session_id, now, th>>

----------------------------------------------------------------------------
(* The clock *)

Tick ==
    /\ now < MaxTime
    /\ now' = now + 1
    /\ UNCHANGED <<interview_sessions, current_session_id, req, resp, th>>

----------------------------------------------------------------------------
(* The program handling one request at a time *)

Init ==
    /\ interview_sessions = <<>>
    /\ current_session_id = NoSession
    /\ now = 0
    /\ req = [op |-> "none"]
    /\ resp = NoResponse
    /\ th = [t \in Threads |-> IdleThread]

Next ==
    \/ StartInterview
    \/ SubmitAnswer
    \/ GetReport
    \/ GetMetrics
    \/ HealthCheck
    \/ Tick

Spec == Init /\ [][Next]_vars

----------------------------------------------------------------------------
(* The report builder on its own: generate_pdf_report is handed a session
   dict and reads nothing else, so it is applied here to a session with any
   metric triple of ProbeLo..ProbeHi, the triples the handlers never store
   among them. *)

ProbeMetrics ==
    [attention : ProbeLo..ProbeHi, positivity : ProbeLo..ProbeHi,
     confidence : ProbeLo..ProbeHi]

InitReport ==
    /\ interview_sessions = <<>>
    /\ current_session_id = NoSession
    /\ now = 0
    /\ \E j \in JobRoles, m \in ProbeMetrics :
           req = [op |-> "generate_pdf_report", session |-> NewSession(j, NoFile, 0, m)]
    /\ resp = NoResponse
    /\ th = [t \in Threads |-> IdleThread]

BuildReport ==
    /\ req.op = "generate_pdf_report"
    /\ resp = NoResponse
    /\ resp' = [op |-> "generate_pdf_report", status |-> 200,
                story |-> generate_pdf_report(req.session)]
    /\ UNCHANGED <<interview_sessions, current_session_id, now, req, th>>

NextReport == BuildReport

SpecReport == InitReport /\ [][NextReport]_vars

----------------------------------------------------------------------------
(* submit_answer step by step, one request per worker thread.  The threads
   switch between bytecodes, so between the steps below: the body is parsed
   and the session looked up (app.py:75-86), the entry is built from the
   cursor (app.py:90-92), appended (app.py:89), the cursor is read and stored
   back (app.py:96), the metrics are replaced (app.py:99-103) and the response
   is built (app.py:106-125). *)

ThreadSession(t) == interview_sessions[th[t].sid]

\* the handler returns: the response is sent and the thread is free again
Finish(t, response) ==
    /\ th' = [th EXCEPT ![t] = IdleThread]
    /\ resp' = response

SubmitBegin(t) ==
    /\ th[t].pc = "idle"
    /\ \E r \in SubmitRequests :
           IF ~IsObject(r)
           THEN Finish(t, Error500("submit_answer", "no JSON object"))
           ELSE LET session_id == Get(r.data, "session_id", None)
                    answer_text == Get(r.data, "answer", "")
                IN  IF session_id.kind = "list"
                    THEN Finish(t, Error500("submit_answer", "unhashable type"))
                    ELSE IF NotInSessions(session_id)
                    THEN Finish(t, Invalid400("submit_answer"))
                    ELSE /\ Len(interview_sessions[session_id.s].answers) < MaxAnswers
                         /\ th' = [th EXCEPT ![t] =
                                      [IdleThread EXCEPT !.pc = "build",
                                                         !.sid = session_id.s,
                                                         !.answer = answer_text]]
                         /\ UNCHANGED resp
    /\ UNCHANGED <<interview_sessions, current_session_id, now, req>>

BuildEntry(t) ==
    /\ th[t].pc = "build"
    /\ IF ~IndexOk(ThreadSession(t).questions, ThreadSession(t).current_question)
       THEN Finish(t, Error500("submit_answer", "list index out of range"))
       ELSE /\ th' = [th EXCEPT ![t].pc = "append",
                                ![t].entry = AnswerEntry(ThreadSession(t), th[t].answer, now)]
            /\ UNCHANGED resp
    /\ UNCHANGED <<interview_sessions, current_session_id, now, req>>

AppendEntry(t) ==
    /\ th[t].pc = "append"
    /\ interview_sessions' =
           UpdateSession(interview_sessions, th[t].sid,
                         StoreAnswer(ThreadSession(t), th[t].entry))
    /\ th' = [th EXCEPT ![t].pc = "read_cursor"]
    /\ UNCHANGED <<current_session_id, now, req, resp>>

ReadCursor(t) ==
    /\ th[t].pc = "read_cursor"
    /\ th' = [th EXCEPT ![t].pc = "write_cursor",
                        ![t].cursor = ThreadSession(t).current_question]
    /\ UNCHANGED <<interview_sessions, current_session_id, now, req, resp>>

StoreCursor(t) ==
    /\ th[t].pc = "write_cursor"
    /\ interview_sessions' =
           UpdateSession(interview_sessions, th[t].sid,
                         WriteCursor(ThreadSession(t), th[t].cursor))
    /\ th' = [th EXCEPT ![t].pc = "metrics"]
    /\ UNCHANGED <<current_session_id, now, req, resp>>

ResampleMetrics(t) ==
    /\ th[t].pc = "metrics"
    /\ \E m \in SampleMetrics :
           interview_sessions' =
               UpdateSession(interview_sessions, th[t].sid,
                             UpdateMetrics(ThreadSession(t), m))
    /\ th' = [th EXCEPT ![t].pc = "respond"]
    /\ UNCHANGED <<current_session_id, now, req, resp>>

Respond(t) ==
    /\ th[t].pc = "respond"
    /\ Finish(t, SubmitResponse(ThreadSession(t)))
    /\ UNCHANGED <<interview_sessions, current_session_id, now, req>>

\* a start while no submit is in flight (a start that assigns a key again
\* replaces the dict a running submit still holds, which the store of this
\* model, keyed by identifier alone, does not tell apart)
StartBetweenSubmits ==
    /\ \A t \in Threads : th[t].pc = "idle"
    /\ Cardinality(DOMAIN interview_sessions) < MaxRacedSessions
    /\ StartInterview

NextConc ==
    \/ StartBetweenSubmits
    \/ \E t \in Threads : SubmitBegin(t)
    \/ \E t \in Threads : BuildEntry(t)
    \/ \E t \in Threads : AppendEntry(t)
    \/ \E t \in Threads : ReadCursor(t)
    \/ \E t \in Threads : StoreCursor(t)
    \/ \E t \in Threads : ResampleMetrics(t)
    \/ \E t \in Threads : Respond(t)
    \/ Tick

SpecConc == Init /\ [][NextConc]_vars

----------------------------------------------------------------------------
(* What the claims speak of *)

Sessions == DOMAIN interview_sessions

\* the session_id a request names: the JSON value of a submit's body (None
\* when the body is no JSON object or lacks the key), the query argument of
\* get_report and get_metrics
RequestedId(rq) ==
    IF rq.op = "submit_answer"
    THEN IF IsObject(rq.body) THEN Get(rq.body.data, "session_id", None) ELSE None
    ELSE IF rq.op \in {"get_report", "get_metrics"} THEN rq.session_id
    ELSE None

IsKey(v, sessions) == v.kind = "str" /\ v.s \in DOMAIN sessions

TakesSessionId(rq) == rq.op \in {"submit_answer", "get_report", "get_metrics"}

\* the last request was a submit that returned success
SubmitSucceeded == req.op = "submit_answer" /\ resp.status = 200

\* the last request was a submit on a session that was already complete
SubmitOnComplete ==
    /\ req.op = "submit_answer"
    /\ resp.status = 500
    /\ resp.error = "list index out of range"

----------------------------------------------------------------------------
(* C1: with requests handled one at a time, every session of the store has
   as many recorded answers as its cursor says, in every state, so also after
   every submit, whether it succeeded, was refused or failed. *)
C1_AnswersMatchCursor ==
    \A s \in Sessions :
        Len(interview_sessions[s].answers) = interview_sessions[s].current_question

\* a submit on a complete session has just failed, and the session still has
\* three answers
C1_Witness ==
    /\ SubmitOnComplete
    /\ Len(interview_sessions[RequestedId(req).s].answers) = 3

C3_CompleteOnNth ==
    SubmitSucceeded =>
        LET session == interview_sessions[RequestedId(req).s]
            k == Len(session.answers)
            N == Len(INTERVIEW_QUESTIONS)
        IN  /\ k \in 1..N
            /\ resp.interview_complete <=> (k = N)
            /\ resp.interview_complete =>
                   resp.total_answers = N /\ resp.total_questions = N

\* the third submit has just reported completion
C3_Witness ==
    /\ SubmitSucceeded
    /\ resp.interview_complete
    /\ resp.total_answers = 3

\* no submit is in flight
Quiescent == \A t \in Threads : th[t].pc = "idle"

\* two entries of the session's answers record the same question
AnsweredTwice(session) ==
    \E i, j \in 1..Len(session.answers) :
        i < j /\ session.answers[i].question = session.answers[j].question

(* C4: with the steps of submits interleaved, what a race can do to a session
   is bounded: no recorded answer is ever lost (the cursor never exceeds the
   number of answers), the cursor overshoots the question list by less than
   the number of threads, and every recorded question is one of the session's
   questions.  The witness is the race itself: once all submits have returned,
   the session holds more answers than its cursor says, one question answered
   twice, and a cursor past the end of the question list. *)
C4_RaceEnvelope ==
    \A s \in Sessions :
        LET session == interview_sessions[s]
        IN  /\ session.current_question <= Len(session.answers)
            /\ session.current_question
                   < Len(session.questions) + Cardinality(Threads)
            /\ \A k \in 1..Len(session.answers) :
                   \E i \in 1..Len(session.questions) :
                       session.answers[k].question = session.questions[i]

\* all submits have returned; an increment of the cursor was lost, a question
\* was answered twice and the cursor is past the end
C4_Witness ==
    /\ Quiescent
    /\ \E s \in Sessions :
           /\ Len(interview_sessions[s].answers)
                  # interview_sessions[s].current_question
           /\ AnsweredTwice(interview_sessions[s])
           /\ interview_sessions[s].current_question
                  > Len(interview_sessions[s].questions)

(* C5 as stated: a submit, get_metrics or get_report whose session_id is not
   a key of the store returns 'Invalid session ID' with status 400. *)
C5_UnknownIsAlways400 ==
    (TakesSessionId(req) /\ ~IsKey(RequestedId(req), interview_sessions)) =>
        /\ resp.status = 400
        /\ resp.success = FALSE
        /\ resp.error = "Invalid session ID"

\* what the code answers to a request whose session_id is not a key
UnknownIdResponse(rq) ==
    IF rq.op = "submit_answer" /\ ~IsObject(rq.body)
    THEN Error500("submit_answer", "no JSON object")
    ELSE IF rq.op = "submit_answer" /\ RequestedId(rq).kind = "list"
    THEN Error500("submit_answer", "unhashable type")
    ELSE [op |-> rq.op, status |-> 400, success |-> FALSE,
          error |-> "Invalid session ID"]

(* C5 amended: get_metrics and get_report always, and submit whenever its
   body is a JSON object whose session_id is absent, null or a string, answer
   a session_id that is not a key with 'Invalid session ID' and status 400; a
   submit whose body is no JSON object or whose session_id is an array
   answers with status 500; in each of these cases the store and
   current_session_id are left as they were. *)
C5_UnknownIdHandling ==
    [][(TakesSessionId(req') /\ ~IsKey(RequestedId(req'), interview_sessions)) =>
          /\ resp' = UnknownIdResponse(req')
          /\ interview_sessions' = interview_sessions
          /\ current_session_id' = current_session_id]_vars

\* a submit naming an unknown session was refused while the store holds one
C5_Witness ==
    /\ req.op = "submit_answer"
    /\ IsObject(req.body)
    /\ RequestedId(req) = Str("session_unknown")
    /\ resp.status = 400
    /\ resp.error = "Invalid session ID"
    /\ Sessions # {}

(* C6: every start request succeeds, whatever it carries, and leaves its
   session in the store. *)
C6_StartAlwaysSucceeds ==
    req.op = "start_interview" =>
        /\ resp.status = 200
        /\ resp.success
        /\ resp.session_id \in Sessions

(* C7: the three metrics of every session are integers of 70..95, after
   creation and after every submit. *)
C7_MetricsInRange ==
    \A s \in Sessions :
        /\ interview_sessions[s].metrics.attention \in 70..95
        /\ interview_sessions[s].metrics.positivity \in 70..95
        /\ interview_sessions[s].metrics.confidence \in 70..95

\* a submit has just resampled the metrics, to both ends of the range
C7_Witness ==
    /\ SubmitSucceeded
    /\ interview_sessions[RequestedId(req).s].metrics.attention = 70
    /\ interview_sessions[RequestedId(req).s].metrics.positivity = 95

(* C8: a submit leaves every session other than the one it names exactly as
   it was, adds and removes no key, and leaves each session's question list
   equal to the Question Bank. *)
C8_SubmitIsolation ==
    [][req'.op = "submit_answer" =>
          /\ DOMAIN interview_sessions' = DOMAIN interview_sessions
          /\ \A s \in Sessions :
                 /\ Str(s) # RequestedId(req') =>
                        interview_sessions'[s] = interview_sessions[s]
                 /\ interview_sessions'[s].questions = INTERVIEW_QUESTIONS]_vars

\* a submit on one session has succeeded while another session, in a
\* different position, sits beside it
C8_Witness ==
    /\ SubmitSucceeded
    /\ \E s \in Sessions :
           /\ Str(s) # RequestedId(req)
           /\ interview_sessions[s].current_question
                  # interview_sessions[RequestedId(req).s].current_question
           /\ interview_sessions[s].metrics
                  # interview_sessions[RequestedId(req).s].metrics

(* C9: get_metrics, get_report and health change neither the store nor
   current_session_id, and get_metrics on a known session returns the stored
   metrics, the stored cursor and the length of the question list. *)
C9_ReadOnly ==
    /\ [][req'.op \in {"get_metrics", "get_report", "health"} =>
             /\ interview_sessions' = interview_sessions
             /\ current_session_id' = current_session_id]_vars
    /\ []((req.op = "get_metrics" /\ resp.status = 200) =>
             LET session == interview_sessions[req.session_id.s]
             IN  /\ resp.metrics = session.metrics
                 /\ resp.current_question = session.current_question
                 /\ resp.total_questions = Len(session.questions))

\* get_metrics has answered for a session that is part-way through
C9_Witness ==
    /\ req.op = "get_metrics"
    /\ resp.status = 200
    /\ resp.current_question = 2

\* the entry a successful submit records, from the session before the submit
SubmittedEntry(rq, session, t) ==
    [question |-> Index(session.questions, session.current_question),
     answer |-> Get(rq.body.data, "answer", ""),
     timestamp |-> t]

(* C10: the answers of a session change only by a successful submit on it,
   which appends one entry holding questions[cursor] and the submitted text;
   earlier entries stay as they are (a start that assigns the key again
   replaces the record and is not a change of its answers); and in every
   state the k-th answer is the answer to the k-th question. *)
C10_AnswersAppendOnly ==
    /\ [][\A s \in Sessions :
             (s \in DOMAIN interview_sessions' /\ req'.op # "start_interview") =>
                 \/ interview_sessions'[s].answers = interview_sessions[s].answers
                 \/ /\ req'.op = "submit_answer"
                    /\ resp'.status = 200
                    /\ RequestedId(req') = Str(s)
                    /\ interview_sessions'[s].answers =
                           Append(interview_sessions[s].answers,
                                  SubmittedEntry(req', interview_sessions[s], now))]_vars
    /\ [](\A s \in Sessions :
             \A k \in 1..Len(interview_sessions[s].answers) :
                 interview_sessions[s].answers[k].question
                     = interview_sessions[s].questions[k])

\* three answers recorded, in the order of the questions
C10_Witness ==
    \E s \in Sessions :
        /\ Len(interview_sessions[s].answers) = 3
        /\ interview_sessions[s].answers[3].question = INTERVIEW_QUESTIONS[3]
        /\ interview_sessions[s].answers[1].timestamp
               < interview_sessions[s].answers[3].timestamp

\* the sum of the three metrics of the session handed to the report builder
ProbeTotal ==
    req.session.metrics.attention + req.session.metrics.positivity
        + req.session.metrics.confidence

(* C11: the assessment of a report is decided by the mean of the three
   metrics alone, with exact boundaries; on the integer sum s of the metrics:
   s >= 270 (mean >= 90) gives 'Excellent', 240 <= s < 270 gives 'Good',
   210 <= s < 240 gives 'Fair', s < 210 (mean < 70) gives 'Needs
   improvement', for every metric triple. *)
C11_AssessmentBoundaries ==
    resp.op = "generate_pdf_report" =>
        /\ (ProbeTotal >= 270)
               <=> resp.story.assessment = "Excellent performance!"
        /\ (240 <= ProbeTotal /\ ProbeTotal < 270)
               <=> resp.story.assessment = "Good performance!"
        /\ (210 <= ProbeTotal /\ ProbeTotal < 240)
               <=> resp.story.assessment = "Fair performance."
        /\ (ProbeTotal < 210)
               <=> resp.story.assessment = "Needs improvement."

\* a report built for a mean of 89.67, one third below the mark, and unequal
\* metrics
C11_Witness ==
    /\ resp.op = "generate_pdf_report"
    /\ ProbeTotal = 269
    /\ req.session.metrics.attention < req.session.metrics.positivity
    /\ resp.story.assessment = "Good performance!"

\* the step is a start request that returned success
StartSucceeded == req.op = "start_interview" /\ resp.status = 200

(* C12: every successful start returns an identifier that was not a key of
   the store before the call, so no start replaces the record of an existing
   session. *)
C12_IdsUnique ==
    [][(req'.op = "start_interview" /\ resp'.status = 200
            /\ interview_sessions' # interview_sessions) =>
          /\ resp'.session_id \notin DOMAIN interview_sessions
          /\ \A s \in Sessions : interview_sessions'[s] = interview_sessions[s]]_vars

\* the fields of a session record that are set when it is created
CreationFields(session) ==
    [start_time |-> session.start_time,
     job_role |-> session.job_role,
     resume_filename |-> session.resume_filename,
     questions |-> session.questions]

(* C13: a session identifier, once in the store, is in the store in every
   later state (no step removes a key), and no submit, get_metrics, get_report
   or health request changes the start_time, job_role, resume_filename or
   questions of any session. *)
C13_NeverDeleted ==
    [][/\ Sessions \subseteq DOMAIN interview_sessions'
       /\ req'.op \in {"submit_answer", "get_metrics", "get_report", "health"} =>
              \A s \in Sessions :
                  CreationFields(interview_sessions'[s])
                      = CreationFields(interview_sessions[s])]_vars

\* a submit has completed a session that was started at an earlier time,
\* beside another session that is still in the store
C13_Witness ==
    /\ SubmitSucceeded
    /\ resp.interview_complete
    /\ interview_sessions[RequestedId(req).s].start_time < now
    /\ interview_sessions[RequestedId(req).s].job_role = "Backend Engineer"
    /\ Cardinality(Sessions) = 2

(* C14: a successful start returns the first question of the bank and the
   number of questions of the bank, 3, and leaves the session it names with
   the cursor at 0, no answers, the questions of the bank, and the job_role of
   the request, or 'Unknown Role' when the request has none. *)
C14_StartResult ==
    StartSucceeded =>
        LET session == interview_sessions[resp.session_id]
        IN  /\ resp.success
            /\ resp.session_id \in Sessions
            /\ resp.first_question = INTERVIEW_QUESTIONS[1]
            /\ resp.total_questions = 3
            /\ Len(INTERVIEW_QUESTIONS) = 3
            /\ session.current_question = 0
            /\ session.answers = <<>>
            /\ session.questions = INTERVIEW_QUESTIONS
            /\ session.job_role =
                   IF "job_role" \in req.body.data.keys
                   THEN req.body.data.job_role
                   ELSE "Unknown Role"

\* a start without job_role has succeeded beside a session that has answers
C14_Witness ==
    /\ StartSucceeded
    /\ "job_role" \notin req.body.data.keys
    /\ interview_sessions[resp.session_id].job_role = "Unknown Role"
    /\ resp.first_question = "experience with technologies"
    /\ \E s \in Sessions : Len(interview_sessions[s].answers) = 2

(* C15: a successful submit made when the cursor is i: if i + 1 < N it does
   not complete the session and returns next_question = questions[i+1],
   question_number = i + 2 and the metrics it has just stored; otherwise it
   completes the session and returns the stored metrics, total_answers =
   len(answers) and total_questions = len(questions). *)
C15_SubmitResult ==
    [][(req'.op = "submit_answer" /\ resp'.status = 200 /\ now' = now) =>
          LET before == interview_sessions[RequestedId(req').s]
              after == interview_sessions'[RequestedId(req').s]
              i == before.current_question
              N == Len(before.questions)
          IN  /\ resp'.success
              /\ resp'.metrics = after.metrics
              /\ IF i + 1 < N
                 THEN /\ ~resp'.interview_complete
                      /\ resp'.next_question = Index(before.questions, i + 1)
                      /\ resp'.question_number = i + 2
                 ELSE /\ resp'.interview_complete
                      /\ resp'.total_answers = Len(after.answers)
                      /\ resp'.total_questions = Len(after.questions)]_vars

\* the first submit has returned the second question, numbered 2, with the
\* metrics it stored
C15_Witness ==
    /\ SubmitSucceeded
    /\ ~resp.interview_complete
    /\ resp.next_question = INTERVIEW_QUESTIONS[2]
    /\ resp.question_number = 2
    /\ resp.metrics = [attention |-> 70, positivity |-> 95, confidence |-> 70]
    /\ interview_sessions[RequestedId(req).s].metrics = resp.metrics

\* the last request was a get_report that returned the document
ReportReturned == req.op = "get_report" /\ resp.status = 200

(* C16: the report of a session with k recorded answers holds exactly k
   question/answer pairs, the i-th being the i-th recorded answer and numbered
   i, and a metrics table of the header row ('Metric', 'Score') followed by
   exactly three rows, Attention, Positivity and Confidence, each with the
   session's current metric written as '<integer>%'. *)
C16_ReportContent ==
    ReportReturned =>
        LET session == interview_sessions[req.session_id.s]
            story == resp.story
            k == Len(session.answers)
        IN  /\ Len(story.qa) = k
            /\ \A i \in 1..k :
                   /\ story.qa[i].number = i
                   /\ story.qa[i].question = session.answers[i].question
                   /\ story.qa[i].answer = session.answers[i].answer
            /\ \A i, j \in 1..k :
                   i < j => session.answers[i].timestamp <= session.answers[j].timestamp
            /\ Len(story.metrics_table) = 4
            /\ story.metrics_table[1] = <<"Metric", "Score">>
            /\ story.metrics_table[2] =
                   <<"Attention", ToString(session.metrics.attention) \o "%">>
            /\ story.metrics_table[3] =
                   <<"Positivity", ToString(session.metrics.positivity) \o "%">>
            /\ story.metrics_table[4] =
                   <<"Confidence", ToString(session.metrics.confidence) \o "%">>

\* the report of a session that is part-way through: two pairs, the second
\* numbered 2 and recorded later than the first, and unequal metric rows
C16_Witness ==
    /\ ReportReturned
    /\ Len(resp.story.qa) = 2
    /\ resp.story.qa[2].number = 2
    /\ resp.story.qa[2].question = INTERVIEW_QUESTIONS[2]
    /\ interview_sessions[req.session_id.s].answers[1].timestamp
           < interview_sessions[req.session_id.s].answers[2].timestamp
    /\ resp.story.metrics_table[2][2] = "70%"
    /\ resp.story.metrics_table[3][2] = "95%"

\* the session is COMPLETE: its cursor is at the end of its question list
Complete(session) == session.current_question = Len(session.questions)

(* C17: a submit on a session that is already COMPLETE fails on the index
   past the question list and is answered as an internal error (success =
   false, status 500); the session, and the whole store, is exactly as before:
   no answer appended, cursor not moved, metrics not resampled, so the session
   is still COMPLETE. *)
C17_SubmitOnCompleteFails ==
    [][(/\ req'.op = "submit_answer"
        /\ now' = now
        /\ IsKey(RequestedId(req'), interview_sessions)
        /\ Complete(interview_sessions[RequestedId(req').s])) =>
          /\ resp'.status = 500
          /\ resp'.success = FALSE
          /\ resp'.error = "list index out of range"
          /\ interview_sessions' = interview_sessions
          /\ Complete(interview_sessions'[RequestedId(req').s])]_vars

\* a submit on a complete session has failed, and the session holds its
\* three answers and the metrics of its third submit
C17_Witness ==
    /\ SubmitOnComplete
    /\ ~resp.success
    /\ Complete(interview_sessions[RequestedId(req).s])
    /\ Len(interview_sessions[RequestedId(req).s].answers)
           = Len(INTERVIEW_QUESTIONS)
    /\ interview_sessions[RequestedId(req).s].metrics.positivity = 95

\* the three sentences for a mean of 70 or more
PassingAssessments ==
    {"Excellent performance!", "Good performance!", "Fair performance."}

(* C18: for every session the start and submit calls can produce, the
   report's assessment is one of 'Excellent', 'Good' and 'Fair' and never
   'Needs improvement': every stored metric is at least 70, so the sum is at
   least 210. *)
C18_NeverNeedsImprovement ==
    /\ \A s \in Sessions :
           /\ generate_pdf_report(interview_sessions[s]).assessment
                  \in PassingAssessments
           /\ interview_sessions[s].metrics.attention
                  + interview_sessions[s].metrics.positivity
                  + interview_sessions[s].metrics.confidence >= 210
    /\ ReportReturned =>
           /\ resp.story.assessment # "Needs improvement."
           /\ resp.story.assessment \in PassingAssessments

\* the report of a session whose three metrics were all drawn at 70 by a
\* submit: the lowest mean there is, assessed as 'Fair'
C18_Witness ==
    /\ ReportReturned
    /\ resp.story.assessment = "Fair performance."
    /\ resp.story.metrics_table[2][2] = "70%"
    /\ resp.story.metrics_table[3][2] = "70%"
    /\ resp.story.metrics_table[4][2] = "70%"
    /\ Len(resp.story.qa) >= 1

====
